---- MODULE Spec2Model ----
(***************************************************************************)
(* The consolidation pipeline of brecha-educativa (01_procesamiento.py)    *)
(* as a state machine: one run of main(), stage by stage, over the raw     *)
(* tables found on disk, together with the pure helpers it calls and the   *)
(* copies of those helpers kept by the downstream scripts.                 *)
(*                                                                         *)
(* Representation of pandas values                                         *)
(*   a cell        NULL (NaN/None), Num(v) (a number), Str(s) (a string)   *)
(*   a string      a sequence of characters; a character is a one-symbol   *)
(*                 TLA+ string, with "n~" "N~" "a'" "A'" standing for the  *)
(*                 precomposed letters U+00F1 U+00D1 U+00E1 U+00C1 and "~" *)
(*                 "'" for the combining marks U+0303 U+0301               *)
(*   a float       Float(n, d), the quotient n/d; d = 0 is numpy's inf     *)
(*   BBOX          in microdegrees, the six decimals its literals have     *)
(*   a DataFrame   [columns |-> set of names, rows |-> sequence of rows],  *)
(*                 a row being a function from the columns to cells        *)
(***************************************************************************)
EXTENDS Integers, Sequences, FiniteSets, TLC

VARIABLES
    pc,                 \* position of main() in 01_procesamiento.py
    disk,               \* files on disk: path |-> table
    df_ee,              \* directory (EE_2024.csv), later df_ee_rm
    df_mat,             \* enrollment (Matricula_2024.csv)
    df_doc,             \* teachers (Docente_2024.csv)
    df_mat_g,           \* enrollment aggregate
    df_doc_g,           \* teacher aggregate
    df_master,          \* consolidated table
    simce,              \* the score tables as they are when joined
    df_final,           \* table after the geographic filters
    conteo_comunal,     \* value_counts of NOM_COM_RBD after the bbox clip
    comunas_eliminadas, \* the reported discard list
    gdf_comunas,        \* boundary dataset of 03_analisis_geoespacial.py
    df_base,            \* consolidated table as 04_analisis_segregacion.py holds it
    stdout              \* what the runs printed

vars == <<pc, disk, df_ee, df_mat, df_doc, df_mat_g, df_doc_g, df_master,
          simce, df_final, conteo_comunal, comunas_eliminadas, gdf_comunas,
          df_base, stdout>>

(***************************************************************************)
(* Bounds of the model                                                     *)
(***************************************************************************)
MaxGeoRows == 7     \* directory rows in the geographic scenarios
MaxSrcRows == 2     \* rows of an enrollment, teacher or score file
MaxNameLen == 3     \* characters of a commune name in the naming scenarios

(***************************************************************************)
(* Program constants                                                       *)
(***************************************************************************)
BBOX_MIN_LON == -70872116
BBOX_MIN_LAT == -33642527
BBOX_MAX_LON == -70469742
BBOX_MAX_LAT == -33327552
MIN_COLEGIOS_POR_COMUNA == 3
REGION_RM == 13
COD_PARVULARIA == 10
NUM_ENS == 11

EE_CSV == "data/raw/EE_2024.csv"
MAT_CSV == "data/raw/Matricula_2024.csv"
DOC_CSV == "data/raw/Docente_2024.csv"
S4_CSV == "data/raw/simce4b2024_rbd_preliminar.csv"
S2_CSV == "data/raw/simce2m2024_rbd_preliminar.csv"
OUTPUT_CSV == "data/processed/base_consolidada_rm_2024_final.csv"

(***************************************************************************)
(* Cells                                                                   *)
(***************************************************************************)
NULL == [t |-> "nan"]
Num(v) == [t |-> "num", v |-> v]
Str(s) == [t |-> "str", s |-> s]
Float(n, d) == [t |-> "float", n |-> n, d |-> d]

isna(c) == c.t = "nan"

(***************************************************************************)
(* String literals of the program, as character sequences                  *)
(***************************************************************************)
MUNICIPAL_CORP == <<"M","U","N","I","C","I","P","A","L","_","C","O","R","P">>
MUNICIPAL_DAEM == <<"M","U","N","I","C","I","P","A","L","_","D","A","E","M">>
PARTICULAR_SUBV == <<"P","A","R","T","I","C","U","L","A","R","_","S","U","B","V">>
PARTICULAR_PAGADO == <<"P","A","R","T","I","C","U","L","A","R","_","P","A","G","A","D","O">>
ADMIN_DELEGADA == <<"A","D","M","I","N","_","D","E","L","E","G","A","D","A">>
SLEP == <<"S","L","E","P">>
OTRO == <<"O","T","R","O">>
DESCONOCIDO == <<"D","E","S","C","O","N","O","C","I","D","O">>
GRATUITO == <<"G","R","A","T","U","I","T","O">>
SIN_INFORMACION == <<"S","I","N"," ","I","N","F","O","R","M","A","C","I","O","N">>
MUNICIPAL == <<"M","U","N","I","C","I","P","A","L">>
ADMIN == <<"A","D","M","I","N">>
Gratuito == <<"G","r","a","t","u","i","t","o">>
Pagado == <<"P","a","g","a","d","o">>
NAN_REPR == <<"n","a","n">>
PRECIO_1 == <<"$","1",".","0","0","0"," ","A"," ","$","1","0",".","0","0","0">>
PRECIO_2 == <<"$","1","0",".","0","0","1"," ","A"," ","$","2","5",".","0","0","0">>
PRECIO_3 == <<"$","2","5",".","0","0","1"," ","A"," ","$","5","0",".","0","0","0">>
PRECIO_4 == <<"$","5","0",".","0","0","1"," ","A"," ","$","1","0","0",".","0","0","0">>
PRECIO_5 == <<"M","A","S"," ","D","E"," ","$","1","0","0",".","0","0","0">>

(***************************************************************************)
(* Python string operations                                                *)
(***************************************************************************)
\* str.upper() on one character
ToUpper ==
    ("a" :> "A") @@ ("b" :> "B") @@ ("c" :> "C") @@ ("d" :> "D") @@ ("e" :> "E") @@
    ("f" :> "F") @@ ("g" :> "G") @@ ("h" :> "H") @@ ("i" :> "I") @@ ("j" :> "J") @@
    ("k" :> "K") @@ ("l" :> "L") @@ ("m" :> "M") @@ ("n" :> "N") @@ ("o" :> "O") @@
    ("p" :> "P") @@ ("q" :> "Q") @@ ("r" :> "R") @@ ("s" :> "S") @@ ("t" :> "T") @@
    ("u" :> "U") @@ ("v" :> "V") @@ ("w" :> "W") @@ ("x" :> "X") @@ ("y" :> "Y") @@
    ("z" :> "Z") @@ ("n~" :> "N~") @@ ("a'" :> "A'")

UpperChar(c) == IF c \in DOMAIN ToUpper THEN ToUpper[c] ELSE c

upper(s) == [i \in 1..Len(s) |-> UpperChar(s[i])]

\* unicodedata.normalize('NFD', .): canonical decomposition of one character
Decomposition ==
    ("N~" :> <<"N", "~">>) @@ ("n~" :> <<"n", "~">>) @@
    ("A'" :> <<"A", "'">>) @@ ("a'" :> <<"a", "'">>)

RECURSIVE NFD(_)
NFD(s) ==
    IF s = <<>> THEN <<>>
    ELSE (IF Head(s) \in DOMAIN Decomposition
          THEN Decomposition[Head(s)] ELSE <<Head(s)>>) \o NFD(Tail(s))

\* unicodedata.category(c) = 'Mn'
CategoryMn == {"~", "'"}

RECURSIVE SinMn(_)
SinMn(s) ==
    IF s = <<>> THEN <<>>
    ELSE (IF Head(s) \in CategoryMn THEN <<>> ELSE <<Head(s)>>) \o SinMn(Tail(s))

Whitespace == {" ", "TAB"}

RECURSIVE lstrip(_)
lstrip(s) ==
    IF s # <<>> /\ Head(s) \in Whitespace THEN lstrip(Tail(s)) ELSE s

RECURSIVE rstrip(_)
rstrip(s) ==
    IF s # <<>> /\ s[Len(s)] \in Whitespace
    THEN rstrip(SubSeq(s, 1, Len(s) - 1)) ELSE s

strip(s) == rstrip(lstrip(s))

\* x in s, for strings
Contains(s, x) ==
    \E i \in 0..(Len(s) - Len(x)) : SubSeq(s, i + 1, i + Len(x)) = x

\* s.replace(a, b) for one-character a and b
replace(s, a, b) == [i \in 1..Len(s) |-> IF s[i] = a THEN b ELSE s[i]]

\* str(v) of a cell that holds a string or NaN
str(c) == IF isna(c) THEN NAN_REPR ELSE c.s

(***************************************************************************)
(* normalizar_texto, the consolidation pipeline's and the geospatial       *)
(* scripts' copies                                                         *)
(***************************************************************************)
\* variant: the string is trimmed before the combining marks are removed
normalizar_texto_strip_primero(texto) ==
    IF isna(texto) THEN DESCONOCIDO
    ELSE SinMn(strip(NFD(upper(str(texto)))))

normalizar_texto(texto) ==
    IF isna(texto) THEN DESCONOCIDO
    ELSE strip(SinMn(NFD(upper(str(texto)))))

normalizar_texto_geo(texto) ==
    IF isna(texto) THEN <<>>
    ELSE strip(SinMn(NFD(upper(str(texto)))))

(***************************************************************************)
(* Numbers: pd.to_numeric(., errors='coerce'), comparisons, division       *)
(***************************************************************************)
DigitVal ==
    ("0" :> 0) @@ ("1" :> 1) @@ ("2" :> 2) @@ ("3" :> 3) @@ ("4" :> 4) @@
    ("5" :> 5) @@ ("6" :> 6) @@ ("7" :> 7) @@ ("8" :> 8) @@ ("9" :> 9)

AllDigits(s) == \A i \in 1..Len(s) : s[i] \in DOMAIN DigitVal

RECURSIVE DigitsValue(_)
DigitsValue(s) ==
    IF s = <<>> THEN 0
    ELSE 10 * DigitsValue(SubSeq(s, 1, Len(s) - 1)) + DigitVal[s[Len(s)]]

RECURSIVE Pow10(_)
Pow10(k) == IF k = 0 THEN 1 ELSE 10 * Pow10(k - 1)

\* the number a decimal literal [-]digits[.digits] denotes; NULL when the
\* string is no such literal
ParseDecimal(s) ==
    LET neg  == s # <<>> /\ Head(s) = "-"
        body == IF neg THEN Tail(s) ELSE s
        dots == {i \in 1..Len(body) : body[i] = "."}
        dot  == IF dots = {} THEN Len(body) + 1
                ELSE CHOOSE i \in dots : \A j \in dots : i <= j
        ip   == SubSeq(body, 1, dot - 1)
        fr   == SubSeq(body, dot + 1, Len(body))
        sign == IF neg THEN -1 ELSE 1
    IN  IF ip = <<>> \/ ~AllDigits(ip) \/ ~AllDigits(fr) THEN NULL
        ELSE IF DigitsValue(fr) = 0 THEN Num(sign * DigitsValue(ip))
        ELSE Float(sign * (DigitsValue(ip) * Pow10(Len(fr)) + DigitsValue(fr)),
                   Pow10(Len(fr)))

to_numeric(c) == IF c.t = "str" THEN ParseDecimal(c.s) ELSE c

\* Series.astype(int) on a non-null number: truncation toward zero
astype_int(c) ==
    IF c.t = "float"
    THEN Num(IF c.n >= 0 THEN c.n \div c.d ELSE -((-c.n) \div c.d))
    ELSE c

\* numerator and denominator of a number cell (denominator > 0 when finite)
Numer(c) == IF c.t = "float" THEN c.n ELSE c.v
Denom(c) == IF c.t = "float" THEN c.d ELSE 1

IsFinite(c) == c.t = "num" \/ (c.t = "float" /\ c.d # 0)

\* c > k and friends for an integer k; every comparison with NaN is False
GtInt(c, k) == ~isna(c) /\ Numer(c) > k * Denom(c)

\* comparison of a coordinate with a bound given in microdegrees; the
\* coordinates of the model carry at most six decimals, so that the
\* denominator divides 10^6
Micro(c) == Numer(c) * (1000000 \div Denom(c))
GeMicro(c, m) == ~isna(c) /\ Micro(c) >= m
LeMicro(c, m) == ~isna(c) /\ Micro(c) <= m

\* a / b on two integer-valued cells, numpy style: x/0 is +-inf or nan
Divide(a, b) ==
    IF isna(a) \/ isna(b) THEN NULL
    ELSE IF b.v = 0 /\ a.v = 0 THEN NULL
    ELSE IF b.v < 0 THEN Float(-a.v, -b.v)
    ELSE Float(a.v, b.v)

\* DataFrame.mean(axis=1) over two columns: NaN is skipped
Mean2(a, b) ==
    IF isna(a) /\ isna(b) THEN NULL
    ELSE IF isna(a) THEN b
    ELSE IF isna(b) THEN a
    ELSE Float(Numer(a) * Denom(b) + Numer(b) * Denom(a), 2 * Denom(a) * Denom(b))

(***************************************************************************)
(* clean_coord                                                             *)
(***************************************************************************)
\* variant: the decimal comma is left in place
clean_coord_sin_coma(val) == to_numeric(val)

clean_coord(val) ==
    to_numeric(IF val.t = "str" THEN Str(replace(val.s, ",", ".")) ELSE val)

(***************************************************************************)
(* Business rules                                                          *)
(***************************************************************************)
dep_map ==
    (1 :> MUNICIPAL_CORP) @@ (2 :> MUNICIPAL_DAEM) @@ (3 :> PARTICULAR_SUBV) @@
    (4 :> PARTICULAR_PAGADO) @@ (5 :> ADMIN_DELEGADA) @@ (6 :> SLEP)

\* variant: the lookup without its fillna
categoria_dependencia_sin_fillna(cod) ==
    IF cod.t = "num" /\ cod.v \in DOMAIN dep_map THEN Str(dep_map[cod.v])
    ELSE NULL

\* df_master['COD_DEPE'].map(dep_map).fillna('OTRO'), one cell
categoria_dependencia(cod) ==
    IF cod.t = "num" /\ cod.v \in DOMAIN dep_map THEN Str(dep_map[cod.v])
    ELSE Str(OTRO)

\* clasificar_dependencia of 01pre.py, the if/elif chain
clasificar_dependencia(cod) ==
    IF cod = Num(1) THEN MUNICIPAL_CORP
    ELSE IF cod = Num(2) THEN MUNICIPAL_DAEM
    ELSE IF cod = Num(3) THEN PARTICULAR_SUBV
    ELSE IF cod = Num(4) THEN PARTICULAR_PAGADO
    ELSE IF cod = Num(5) THEN ADMIN_DELEGADA
    ELSE IF cod = Num(6) THEN SLEP
    ELSE OTRO

PublicMarkers == {MUNICIPAL, SLEP, ADMIN}

\* variant: the public test looks for 'MUNICIPAL' alone
clasificar_pago_solo_municipal(row) ==
    LET pago == upper(str(row.PAGO_MENSUAL))
        dep  == upper(str(row.categoria_dependencia))
    IN  IF pago = GRATUITO THEN Gratuito
        ELSE IF pago = SIN_INFORMACION /\ Contains(dep, MUNICIPAL) THEN Gratuito
        ELSE Pagado

\* variant: a record without a fee label is given no class
clasificar_pago_sin_etiqueta(row) ==
    LET pago == upper(str(row.PAGO_MENSUAL))
        dep  == upper(str(row.categoria_dependencia))
    IN  IF isna(row.PAGO_MENSUAL) THEN NAN_REPR
        ELSE IF pago = GRATUITO THEN Gratuito
        ELSE IF pago = SIN_INFORMACION /\ \E x \in PublicMarkers : Contains(dep, x)
        THEN Gratuito
        ELSE Pagado

clasificar_pago_consolidado(row) ==
    LET pago == upper(str(row.PAGO_MENSUAL))
        dep  == upper(str(row.categoria_dependencia))
    IN  IF pago = GRATUITO THEN Gratuito
        ELSE IF pago = SIN_INFORMACION /\ \E x \in PublicMarkers : Contains(dep, x)
        THEN Gratuito
        ELSE Pagado

\* variant of the copy in 06-simce.py: 'ADMIN_DELEGADA' is no public marker
clasificar_pago_sin_delegada(row) ==
    LET pago == upper(str(row.PAGO_MENSUAL))
        dep  == upper(str(row.categoria_dependencia))
    IN  IF pago = GRATUITO THEN Gratuito
        ELSE IF pago = SIN_INFORMACION
        THEN IF \E x \in {MUNICIPAL, SLEP} : Contains(dep, x) THEN Gratuito ELSE Pagado
        ELSE Pagado

\* clasificar_pago of 06-simce.py
clasificar_pago(row) ==
    LET pago == upper(str(row.PAGO_MENSUAL))
        dep  == upper(str(row.categoria_dependencia))
    IN  IF pago = GRATUITO THEN Gratuito
        ELSE IF pago = SIN_INFORMACION
        THEN IF \E x \in {MUNICIPAL, SLEP, ADMIN_DELEGADA} : Contains(dep, x)
             THEN Gratuito
             ELSE Pagado
        ELSE Pagado

precio_map(label) ==
    CASE label = GRATUITO -> 0
      [] label = PRECIO_1 -> 1
      [] label = PRECIO_2 -> 2
      [] label = PRECIO_3 -> 3
      [] label = PRECIO_4 -> 4
      [] label = PRECIO_5 -> 5
      [] label = SIN_INFORMACION -> -1
      [] OTHER -> -1          \* .map() gives NaN, .fillna(-1)

\* variant: the label is upper-cased but not trimmed
PAGO_MENSUAL_NORM_sin_strip(x) == upper(str(x))

PAGO_MENSUAL_NORM(x) == strip(upper(str(x)))

\* variant: offering the pre-primary level at all is enough
es_solo_parvulo_con_parvularia(ens) ==
    LET niveles == {ens[i].v : i \in {j \in 1..Len(ens) : ~isna(ens[j]) /\ ens[j].v # 0}}
    IN  COD_PARVULARIA \in niveles

\* es_solo_parvulo over the ENS_01..ENS_11 cells of one row, 0 replaced by NaN
es_solo_parvulo(ens) ==
    LET niveles == {ens[i].v : i \in {j \in 1..Len(ens) : ~isna(ens[j]) /\ ens[j].v # 0}}
    IN  Cardinality(niveles) = 1 /\ COD_PARVULARIA \in niveles

(***************************************************************************)
(* DataFrame operations                                                    *)
(***************************************************************************)
EmptyDF == [columns |-> {}, rows |-> <<>>]
Table(cols, rows) == [columns |-> cols, rows |-> rows]

RECURSIVE MaskedRows(_, _)
MaskedRows(rows, mask) ==
    IF rows = <<>> THEN <<>>
    ELSE (IF Head(mask) THEN <<Head(rows)>> ELSE <<>>)
            \o MaskedRows(Tail(rows), Tail(mask))

\* df[mask], mask a boolean series over the rows of df
Filter(df, mask) == [df EXCEPT !.rows = MaskedRows(df.rows, mask)]

\* df[name] = series, series holding one cell per row of df
WithColumn(df, name, series) ==
    [columns |-> df.columns \cup {name},
     rows    |-> [i \in 1..Len(df.rows) |-> (name :> series[i]) @@ df.rows[i]]]

\* df[[c for c in cols if c in df.columns]]
SelectColumns(df, cols) ==
    [columns |-> df.columns \cap cols,
     rows    |-> [i \in 1..Len(df.rows) |->
                    [c \in df.columns \cap cols |-> df.rows[i][c]]]]

\* df[cols.keys()].rename(columns=cols)
Rename(df, cols) ==
    [columns |-> {cols[c] : c \in DOMAIN cols},
     rows    |-> [i \in 1..Len(df.rows) |->
                    [n \in {cols[c] : c \in DOMAIN cols} |->
                        df.rows[i][CHOOSE c \in DOMAIN cols : cols[c] = n]]]]

RECURSIVE SortedSeq(_)
SortedSeq(S) ==
    IF S = {} THEN <<>>
    ELSE LET m == CHOOSE x \in S : \A y \in S : x <= y
         IN  <<m>> \o SortedSeq(S \ {m})

\* sum of column col over the rows whose key is k; NaN is skipped
RECURSIVE SumWhere(_, _, _, _)
SumWhere(rows, key, k, col) ==
    IF rows = <<>> THEN 0
    ELSE (IF Head(rows)[key].v = k /\ ~isna(Head(rows)[col])
          THEN Head(rows)[col].v ELSE 0) + SumWhere(Tail(rows), key, k, col)

\* variant: one row per source row, nothing is summed
GroupBySum_SinAgrupar(df, key, col) ==
    [columns |-> {key, col},
     rows    |-> [i \in 1..Len(df.rows) |->
                    (key :> df.rows[i][key]) @@
                    (col :> IF isna(df.rows[i][col]) THEN Num(0) ELSE df.rows[i][col])]]

\* df.groupby(key)[col].sum().reset_index(): one row per key, keys ascending
GroupBySum(df, key, col) ==
    LET keys == SortedSeq({df.rows[i][key].v : i \in 1..Len(df.rows)})
    IN  [columns |-> {key, col},
         rows    |-> [i \in 1..Len(keys) |->
                        (key :> Num(keys[i])) @@
                        (col :> Num(SumWhere(df.rows, key, keys[i], col)))]]

\* the rows of one left row's join: one per matching right row, in the right
\* table's order, or the left row padded with NaN when nothing matches
JoinRow(l, right, key) ==
    LET others  == right.columns \ {key}
        matches == SelectSeq(right.rows, LAMBDA r : r[key] = l[key])
    IN  IF matches = <<>> THEN << [c \in others |-> NULL] @@ l >>
        ELSE [i \in 1..Len(matches) |-> [c \in others |-> matches[i][c]] @@ l]

RECURSIVE JoinRows(_, _, _)
JoinRows(lrows, right, key) ==
    IF lrows = <<>> THEN <<>>
    ELSE JoinRow(Head(lrows), right, key) \o JoinRows(Tail(lrows), right, key)

\* variant: an inner join, the left rows without a match are lost
MergeLeft_Inner(left, right, key) ==
    [columns |-> left.columns \cup right.columns,
     rows    |-> JoinRows(SelectSeq(left.rows,
                                    LAMBDA l : \E i \in DOMAIN right.rows :
                                                  right.rows[i][key] = l[key]),
                          right, key)]

\* left.merge(right, on=key, how='left')
MergeLeft(left, right, key) ==
    [columns |-> left.columns \cup right.columns,
     rows    |-> JoinRows(left.rows, right, key)]

\* Series.value_counts(): value |-> count, for the values that occur
value_counts(df, col) ==
    LET vals == {df.rows[i][col] : i \in 1..Len(df.rows)}
    IN  [v \in vals |-> Cardinality({i \in 1..Len(df.rows) : df.rows[i][col] = v})]

(***************************************************************************)
(* main() of 01_procesamiento.py, stage by stage                           *)
(***************************************************************************)
RawFiles == <<EE_CSV, MAT_CSV, DOC_CSV>>

\* the file whose read_csv raises FileNotFoundError first
FirstMissing(files) ==
    files[CHOOSE i \in 1..Len(files) :
            /\ files[i] \notin DOMAIN disk
            /\ \A j \in 1..(i - 1) : files[j] \in DOMAIN disk]

\* lines 41, 47, 63, 92, 121, 136, 164: what a section prints when it starts
Avisos ==
    [cargar          |-> <<[msg |-> "INICIANDO PROCESAMIENTO CONSOLIDADO"],
                           [msg |-> "1. Cargando archivos RAW"]>>,
     filtro_parvulos |-> <<[msg |-> "Filtrando jardines infantiles puros"]>>,
     agregacion      |-> <<[msg |-> "2. Calculando metricas de capacidad"]>>,
     clasificaciones |-> <<[msg |-> "3. Aplicando reglas de negocio"]>>,
     simce           |-> <<[msg |-> "4. Integrando SIMCE"]>>,
     bbox            |-> <<[msg |-> "5. Aplicando Filtro Geografico"]>>]

\* lines 48-51: the three raw files are read
CargarRaw ==
    /\ pc = "cargar"
    /\ \A i \in 1..Len(RawFiles) : RawFiles[i] \in DOMAIN disk
    /\ df_ee' = disk[EE_CSV]
    /\ df_mat' = disk[MAT_CSV]
    /\ df_doc' = disk[DOC_CSV]
    /\ stdout' = stdout \o Avisos[pc]
    /\ pc' = "normalizar_rbd"
    /\ UNCHANGED <<df_base, gdf_comunas, disk, df_mat_g, df_doc_g, df_master, simce, df_final,
                   conteo_comunal, comunas_eliminadas>>

\* variant: the run reports the missing file, writes an empty output and returns
CargarRawFalla_Escribe ==
    /\ pc = "cargar"
    /\ \E i \in 1..Len(RawFiles) : RawFiles[i] \notin DOMAIN disk
    /\ stdout' = Append(stdout \o Avisos[pc], [msg |-> "Error: Falta archivo raw",
                                 file |-> FirstMissing(RawFiles)])
    /\ disk' = (OUTPUT_CSV :> EmptyDF) @@ disk
    /\ pc' = "fin"
    /\ UNCHANGED <<df_base, gdf_comunas, df_ee, df_mat, df_doc, df_mat_g, df_doc_g, df_master,
                   simce, df_final, conteo_comunal, comunas_eliminadas>>

\* lines 52-54: a raw file is missing, the run reports it and returns
CargarRawFalla ==
    /\ pc = "cargar"
    /\ \E i \in 1..Len(RawFiles) : RawFiles[i] \notin DOMAIN disk
    /\ stdout' = Append(stdout \o Avisos[pc], [msg |-> "Error: Falta archivo raw",
                                 file |-> FirstMissing(RawFiles)])
    /\ pc' = "fin"
    /\ UNCHANGED <<df_base, gdf_comunas, disk, df_ee, df_mat, df_doc, df_mat_g, df_doc_g, df_master,
                   simce, df_final, conteo_comunal, comunas_eliminadas>>

\* variant: the rows whose identifier is no number are kept
NormalizarTablaRBD_SinDescarte(df) ==
    WithColumn(df, "RBD",
               [i \in DOMAIN df.rows |->
                   IF isna(to_numeric(df.rows[i].RBD)) THEN NULL
                   ELSE astype_int(to_numeric(df.rows[i].RBD))])

\* variant: only the two totals are required to be present
subset_criticos_sin_coordenadas == {"DC_TOT", "MAT_TOTAL"}

\* line 108: the columns of dropna(subset=...)
subset_criticos == {"LATITUD", "LONGITUD", "DC_TOT", "MAT_TOTAL"}

\* the columns a stage indexes without testing for them, table by table
\* (directory, enrollment, teachers, master); a missing one raises KeyError
\* out of main()
ColumnasIndexadas ==
    [normalizar_rbd  |-> <<{"RBD"}, {"RBD"}, {"RBD"}, {}>>,
     filtro_parvulos |-> <<{"ENS"}, {}, {}, {}>>,
     directorio_rm   |-> <<{"COD_REG_RBD", "NOM_COM_RBD", "LATITUD", "LONGITUD"}, {}, {}, {}>>,
     agregacion      |-> <<{}, {"RBD", "MAT_TOTAL"}, {"RBD", "DC_TOT"}, {}>>,
     merge           |-> <<{"RBD"}, {}, {}, {}>>,
     limpieza        |-> <<{}, {}, {}, subset_criticos>>,
     ratios          |-> <<{}, {}, {}, {"MAT_TOTAL", "DC_TOT"}>>,
     clasificaciones |-> <<{}, {}, {}, {"COD_DEPE", "PAGO_MENSUAL"}>>,
     bbox            |-> <<{}, {}, {}, {"LONGITUD", "LATITUD"}>>]

\* the stage main() is at indexes a column its table does not have
FaltaColumna ==
    /\ pc \in DOMAIN ColumnasIndexadas
    /\ \/ ~(ColumnasIndexadas[pc][1] \subseteq df_ee.columns)
       \/ ~(ColumnasIndexadas[pc][2] \subseteq df_mat.columns)
       \/ ~(ColumnasIndexadas[pc][3] \subseteq df_doc.columns)
       \/ ~(ColumnasIndexadas[pc][4] \subseteq df_master.columns)

\* the KeyError is not caught: the run ends there, nothing more is written
ErrorDeClave ==
    /\ FaltaColumna
    /\ stdout' = stdout \o (IF pc \in DOMAIN Avisos THEN Avisos[pc] ELSE <<>>)
    /\ pc' = "excepcion"
    /\ UNCHANGED <<df_base, gdf_comunas, disk, df_ee, df_mat, df_doc, df_mat_g, df_doc_g,
                   df_master, simce, df_final, conteo_comunal, comunas_eliminadas>>

\* lines 58-60 on one table
NormalizarTablaRBD(df) ==
    LET num  == WithColumn(df, "RBD",
                           [i \in DOMAIN df.rows |-> to_numeric(df.rows[i].RBD)])
        kept == Filter(num, [i \in DOMAIN num.rows |-> ~isna(num.rows[i].RBD)])
    IN  WithColumn(kept, "RBD",
                   [i \in DOMAIN kept.rows |-> astype_int(kept.rows[i].RBD)])

\* lines 56-60
NormalizarRBD ==
    /\ pc = "normalizar_rbd"
    /\ ~FaltaColumna
    /\ df_ee' = NormalizarTablaRBD(df_ee)
    /\ df_mat' = NormalizarTablaRBD(df_mat)
    /\ df_doc' = NormalizarTablaRBD(df_doc)
    /\ pc' = "filtro_parvulos"
    /\ UNCHANGED <<df_base, gdf_comunas, disk, df_mat_g, df_doc_g, df_master, simce, df_final,
                   conteo_comunal, comunas_eliminadas, stdout>>

\* lines 62-72
FiltrarParvulos ==
    /\ pc = "filtro_parvulos"
    /\ ~FaltaColumna
    /\ LET mask_parvulos == [i \in DOMAIN df_ee.rows |-> es_solo_parvulo(df_ee.rows[i].ENS)]
       IN  df_ee' = Filter(df_ee, [i \in DOMAIN df_ee.rows |-> ~mask_parvulos[i]])
    /\ stdout' = stdout \o Avisos[pc]
    /\ pc' = "directorio_rm"
    /\ UNCHANGED <<df_base, gdf_comunas, disk, df_mat, df_doc, df_mat_g, df_doc_g, df_master, simce,
                   df_final, conteo_comunal, comunas_eliminadas>>

cols_ee == {"RBD", "NOM_RBD", "COD_COM_RBD", "NOM_COM_RBD", "COD_DEPE",
            "LATITUD", "LONGITUD", "RURAL_RBD", "PAGO_MENSUAL"}

\* lines 74-87: region filter, commune names, coordinates, base columns
PrepararDirectorio ==
    /\ pc = "directorio_rm"
    /\ ~FaltaColumna
    /\ LET rm   == Filter(df_ee, [i \in DOMAIN df_ee.rows |->
                                     df_ee.rows[i].COD_REG_RBD = Num(REGION_RM)])
           com  == WithColumn(rm, "NOM_COM_RBD",
                              [i \in DOMAIN rm.rows |->
                                  Str(normalizar_texto(rm.rows[i].NOM_COM_RBD))])
           lat  == WithColumn(com, "LATITUD",
                              [i \in DOMAIN com.rows |-> clean_coord(com.rows[i].LATITUD)])
           lon  == WithColumn(lat, "LONGITUD",
                              [i \in DOMAIN lat.rows |-> clean_coord(lat.rows[i].LONGITUD)])
       IN  df_ee' = SelectColumns(lon, cols_ee)
    /\ pc' = "agregacion"
    /\ UNCHANGED <<df_base, gdf_comunas, disk, df_mat, df_doc, df_mat_g, df_doc_g, df_master, simce,
                   df_final, conteo_comunal, comunas_eliminadas, stdout>>

\* lines 94-101
Agregar ==
    /\ pc = "agregacion"
    /\ ~FaltaColumna
    /\ LET mat == GroupBySum(df_mat, "RBD", "MAT_TOTAL")
       IN  df_mat_g' = IF "CUR_SIM_TOT" \in df_mat.columns
                       THEN MergeLeft(mat, GroupBySum(df_mat, "RBD", "CUR_SIM_TOT"), "RBD")
                       ELSE mat
    /\ df_doc_g' = GroupBySum(df_doc, "RBD", "DC_TOT")
    /\ stdout' = stdout \o Avisos[pc]
    /\ pc' = "merge"
    /\ UNCHANGED <<df_base, gdf_comunas, disk, df_ee, df_mat, df_doc, df_master, simce, df_final,
                   conteo_comunal, comunas_eliminadas>>

\* lines 103-105
MergeMaster ==
    /\ pc = "merge"
    /\ ~FaltaColumna
    /\ df_master' = MergeLeft(MergeLeft(df_ee, df_mat_g, "RBD"), df_doc_g, "RBD")
    /\ pc' = "limpieza"
    /\ UNCHANGED <<df_base, gdf_comunas, disk, df_ee, df_mat, df_doc, df_mat_g, df_doc_g, simce,
                   df_final, conteo_comunal, comunas_eliminadas, stdout>>

\* variant: only the enrollment is required to be positive
TieneCapacidad_SoloMatricula(r) == GtInt(r.MAT_TOTAL, 0)

\* line 109: the rows kept for the ratios
TieneCapacidad(r) == GtInt(r.DC_TOT, 0) /\ GtInt(r.MAT_TOTAL, 0)

\* lines 107-109
LimpiarNulos ==
    /\ pc = "limpieza"
    /\ ~FaltaColumna
    /\ LET sin_nulos == Filter(df_master,
                               [i \in DOMAIN df_master.rows |->
                                   \A c \in subset_criticos :
                                       ~isna(df_master.rows[i][c])])
       IN  df_master' = Filter(sin_nulos, [i \in DOMAIN sin_nulos.rows |->
                                              TieneCapacidad(sin_nulos.rows[i])])
    /\ pc' = "ratios"
    /\ UNCHANGED <<df_base, gdf_comunas, disk, df_ee, df_mat, df_doc, df_mat_g, df_doc_g, simce,
                   df_final, conteo_comunal, comunas_eliminadas, stdout>>

\* variant: the quotient is taken whatever the section count
ratio_alumno_curso_sin_guarda(x) == Divide(x.MAT_TOTAL, x.CUR_SIM_TOT)

\* line 115, the lambda
ratio_alumno_curso(x) ==
    IF GtInt(x.CUR_SIM_TOT, 0) THEN Divide(x.MAT_TOTAL, x.CUR_SIM_TOT) ELSE NULL

\* variant: the section count is indexed without testing for the column
CalcularRatios_SinPrueba ==
    /\ pc = "ratios"
    /\ ~FaltaColumna
    /\ LET rad == WithColumn(df_master, "ratio_alumno_docente",
                             [i \in DOMAIN df_master.rows |->
                                 Divide(df_master.rows[i].MAT_TOTAL,
                                        df_master.rows[i].DC_TOT)])
       IN  IF "CUR_SIM_TOT" \in df_master.columns
           THEN /\ df_master' = WithColumn(rad, "ratio_alumno_curso",
                                           [i \in DOMAIN rad.rows |->
                                               ratio_alumno_curso(rad.rows[i])])
                /\ pc' = "clasificaciones"
           ELSE /\ df_master' = rad
                /\ pc' = "excepcion"
    /\ UNCHANGED <<df_base, gdf_comunas, disk, df_ee, df_mat, df_doc, df_mat_g, df_doc_g, simce,
                   df_final, conteo_comunal, comunas_eliminadas, stdout>>

\* lines 111-116
CalcularRatios ==
    /\ pc = "ratios"
    /\ ~FaltaColumna
    /\ LET rad == WithColumn(df_master, "ratio_alumno_docente",
                             [i \in DOMAIN df_master.rows |->
                                 Divide(df_master.rows[i].MAT_TOTAL,
                                        df_master.rows[i].DC_TOT)])
       IN  df_master' = IF "CUR_SIM_TOT" \in df_master.columns
                        THEN WithColumn(rad, "ratio_alumno_curso",
                                        [i \in DOMAIN rad.rows |->
                                            ratio_alumno_curso(rad.rows[i])])
                        ELSE rad
    /\ pc' = "clasificaciones"
    /\ UNCHANGED <<df_base, gdf_comunas, disk, df_ee, df_mat, df_doc, df_mat_g, df_doc_g, simce,
                   df_final, conteo_comunal, comunas_eliminadas, stdout>>

\* lines 121-131
Clasificar ==
    /\ pc = "clasificaciones"
    /\ ~FaltaColumna
    /\ LET dep  == WithColumn(df_master, "categoria_dependencia",
                              [i \in DOMAIN df_master.rows |->
                                  categoria_dependencia(df_master.rows[i].COD_DEPE)])
           tipo == WithColumn(dep, "TIPO_PAGO",
                              [i \in DOMAIN dep.rows |->
                                  Str(clasificar_pago_consolidado(dep.rows[i]))])
           norm == WithColumn(tipo, "PAGO_MENSUAL_NORM",
                              [i \in DOMAIN tipo.rows |->
                                  Str(PAGO_MENSUAL_NORM(tipo.rows[i].PAGO_MENSUAL))])
       IN  df_master' = WithColumn(norm, "orden_precio",
                                   [i \in DOMAIN norm.rows |->
                                       Num(precio_map(norm.rows[i].PAGO_MENSUAL_NORM.s))])
    /\ stdout' = stdout \o Avisos[pc]
    /\ pc' = "simce"
    /\ UNCHANGED <<df_base, gdf_comunas, disk, df_ee, df_mat, df_doc, df_mat_g, df_doc_g, simce,
                   df_final, conteo_comunal, comunas_eliminadas>>

cols_s4 == ("rbd" :> "RBD") @@ ("prom_lect4b_rbd" :> "SIMCE_4B_LECT") @@
           ("prom_mate4b_rbd" :> "SIMCE_4B_MATE")
cols_s2 == ("rbd" :> "RBD") @@ ("prom_lect2m_rbd" :> "SIMCE_2M_LECT") @@
           ("prom_mate2m_rbd" :> "SIMCE_2M_MATE")

\* lines 144-153 on one score table: column selection, numeric coercion of
\* every column, composite score
PrepararSimce(df, cols, lect, mate, avg) ==
    LET sel == Rename(df, cols)
        num == [sel EXCEPT !.rows =
                  [i \in 1..Len(sel.rows) |->
                     [c \in sel.columns |-> to_numeric(sel.rows[i][c])]]]
    IN  WithColumn(num, avg, [i \in DOMAIN num.rows |->
                                Mean2(num.rows[i][lect], num.rows[i][mate])])

\* no statement of the try block (lines 138-156) raises
SimceSinExcepcion ==
    /\ S4_CSV \in DOMAIN disk
    /\ S2_CSV \in DOMAIN disk
    /\ DOMAIN cols_s4 \subseteq disk[S4_CSV].columns
    /\ DOMAIN cols_s2 \subseteq disk[S2_CSV].columns

\* lines 137-156: both score tables are read, prepared and joined
IntegrarSimce ==
    /\ pc = "simce"
    /\ SimceSinExcepcion
    /\ LET s4 == PrepararSimce(disk[S4_CSV], cols_s4,
                               "SIMCE_4B_LECT", "SIMCE_4B_MATE", "SIMCE_4B_AVG")
           s2 == PrepararSimce(disk[S2_CSV], cols_s2,
                               "SIMCE_2M_LECT", "SIMCE_2M_MATE", "SIMCE_2M_AVG")
       IN  /\ simce' = [s4 |-> s4, s2 |-> s2]
           /\ df_master' = MergeLeft(MergeLeft(df_master, s4, "RBD"), s2, "RBD")
    /\ stdout' = stdout \o Avisos[pc]
    /\ pc' = "bbox"
    /\ UNCHANGED <<df_base, gdf_comunas, disk, df_ee, df_mat, df_doc, df_mat_g, df_doc_g, df_final,
                   conteo_comunal, comunas_eliminadas>>

\* variant: the 4B table is joined before the 2M table is read, and stays
\* joined when the 2M table fails
IntegrarSimceFalla_Parcial ==
    /\ pc = "simce"
    /\ ~SimceSinExcepcion
    /\ IF S4_CSV \in DOMAIN disk /\ DOMAIN cols_s4 \subseteq disk[S4_CSV].columns
       THEN df_master' = MergeLeft(df_master,
                                   PrepararSimce(disk[S4_CSV], cols_s4, "SIMCE_4B_LECT",
                                                 "SIMCE_4B_MATE", "SIMCE_4B_AVG"),
                                   "RBD")
       ELSE df_master' = df_master
    /\ stdout' = Append(stdout \o Avisos[pc], [msg |-> "Advertencia SIMCE"])
    /\ pc' = "bbox"
    /\ UNCHANGED <<df_base, gdf_comunas, disk, df_ee, df_mat, df_doc, df_mat_g, df_doc_g,
                   simce, df_final, conteo_comunal, comunas_eliminadas>>

\* lines 158-159: the try block raised (a score file is missing, or lacks a
\* selected column) before any join; the run warns and goes on
IntegrarSimceFalla ==
    /\ pc = "simce"
    /\ ~SimceSinExcepcion
    /\ stdout' = Append(stdout \o Avisos[pc], [msg |-> "Advertencia SIMCE"])
    /\ pc' = "bbox"
    /\ UNCHANGED <<df_base, gdf_comunas, disk, df_ee, df_mat, df_doc, df_mat_g, df_doc_g, df_master,
                   simce, df_final, conteo_comunal, comunas_eliminadas>>

\* variant: the western bound is exclusive
mask_bbox_estricto(r) ==
    /\ GeMicro(r.LONGITUD, BBOX_MIN_LON + 1) /\ LeMicro(r.LONGITUD, BBOX_MAX_LON)
    /\ GeMicro(r.LATITUD, BBOX_MIN_LAT) /\ LeMicro(r.LATITUD, BBOX_MAX_LAT)

\* lines 168-171
mask_bbox(r) ==
    /\ GeMicro(r.LONGITUD, BBOX_MIN_LON) /\ LeMicro(r.LONGITUD, BBOX_MAX_LON)
    /\ GeMicro(r.LATITUD, BBOX_MIN_LAT) /\ LeMicro(r.LATITUD, BBOX_MAX_LAT)

\* lines 165-172
RecorteBBox ==
    /\ pc = "bbox"
    /\ ~FaltaColumna
    /\ df_final' = Filter(df_master, [i \in DOMAIN df_master.rows |->
                                         mask_bbox(df_master.rows[i])])
    /\ stdout' = stdout \o Avisos[pc]
    /\ pc' = "representatividad"
    /\ UNCHANGED <<df_base, gdf_comunas, disk, df_ee, df_mat, df_doc, df_mat_g, df_doc_g, df_master,
                   simce, conteo_comunal, comunas_eliminadas>>

\* variants: the threshold itself counts as valid; only counts below the
\* threshold are listed
EsComunaValida_Ge(n) == n >= MIN_COLEGIOS_POR_COMUNA
EsComunaEliminada_Lt(n) == n < MIN_COLEGIOS_POR_COMUNA

\* line 179 and line 180, the two conditions on a commune's count
EsComunaValida(n) == n > MIN_COLEGIOS_POR_COMUNA
EsComunaEliminada(n) == n <= MIN_COLEGIOS_POR_COMUNA

\* variant: the communes are counted over the table before the clip
FiltroRepresentatividad_SinRecorte ==
    /\ pc = "representatividad"
    /\ LET conteo    == value_counts(df_master, "NOM_COM_RBD")
           validas   == {c \in DOMAIN conteo : EsComunaValida(conteo[c])}
           filtrado  == Filter(df_final, [i \in DOMAIN df_final.rows |->
                                             df_final.rows[i].NOM_COM_RBD \in validas])
       IN  /\ conteo_comunal' = conteo
           /\ comunas_eliminadas' = {c \in DOMAIN conteo : EsComunaEliminada(conteo[c])}
           /\ df_final' = filtrado
           /\ stdout' = stdout \o
                << [msg |-> "Establecimientos en RM", n |-> Len(df_master.rows)],
                   [msg |-> "Establecimientos tras BBox", n |-> Len(df_final.rows)],
                   [msg |-> "Establecimientos finales", n |-> Len(filtrado.rows)],
                   [msg |-> "Comunas eliminadas",
                    comunas |-> {c \in DOMAIN conteo : EsComunaEliminada(conteo[c])}] >>
    /\ pc' = "guardar"
    /\ UNCHANGED <<df_base, gdf_comunas, disk, df_ee, df_mat, df_doc, df_mat_g, df_doc_g, df_master, simce>>

\* lines 174-189; the discard list is kept as the set of its names
FiltroRepresentatividad ==
    /\ pc = "representatividad"
    /\ LET conteo    == value_counts(df_final, "NOM_COM_RBD")
           validas   == {c \in DOMAIN conteo : EsComunaValida(conteo[c])}
           filtrado  == Filter(df_final, [i \in DOMAIN df_final.rows |->
                                             df_final.rows[i].NOM_COM_RBD \in validas])
       IN  /\ conteo_comunal' = conteo
           /\ comunas_eliminadas' = {c \in DOMAIN conteo : EsComunaEliminada(conteo[c])}
           /\ df_final' = filtrado
           /\ stdout' = stdout \o
                << [msg |-> "Establecimientos en RM", n |-> Len(df_master.rows)],
                   [msg |-> "Establecimientos tras BBox", n |-> Len(df_final.rows)],
                   [msg |-> "Establecimientos finales", n |-> Len(filtrado.rows)],
                   [msg |-> "Comunas eliminadas",
                    comunas |-> {c \in DOMAIN conteo : EsComunaEliminada(conteo[c])}] >>
    /\ pc' = "guardar"
    /\ UNCHANGED <<df_base, gdf_comunas, disk, df_ee, df_mat, df_doc, df_mat_g, df_doc_g, df_master, simce>>

\* lines 194-196
Guardar ==
    /\ pc = "guardar"
    /\ disk' = (OUTPUT_CSV :> df_final) @@ disk
    /\ stdout' = Append(stdout, [msg |-> "PROCESO COMPLETADO", file |-> OUTPUT_CSV])
    /\ pc' = "fin"
    /\ UNCHANGED <<df_base, gdf_comunas, df_ee, df_mat, df_doc, df_mat_g, df_doc_g, df_master,
                   simce, df_final, conteo_comunal, comunas_eliminadas>>

(***************************************************************************)
(* main() of 03_analisis_geoespacial.py up to the normalization of the     *)
(* boundary dataset's names (lines 55-77)                                  *)
(***************************************************************************)
\* the name column of the boundary dataset read from the shapefile
NombresMapa ==
    {Str(<<"N~","U","N~","O","A">>), Str(<<"M","a","i","p","u">>), NULL}

\* lines 56-77: the consolidated file is read, the boundary names normalized
NormalizarNombresMapa ==
    /\ pc = "fin"
    /\ OUTPUT_CSV \in DOMAIN disk
    /\ \E nombre \in NombresMapa :
          LET mapa == Table({"NOM_COMUNA"}, <<[NOM_COMUNA |-> nombre]>>)
          IN  gdf_comunas' =
                  WithColumn(mapa, "nombre_norm",
                             [i \in DOMAIN mapa.rows |->
                                 Str(normalizar_texto_geo(mapa.rows[i].NOM_COMUNA))])
    /\ pc' = "mapa"
    /\ UNCHANGED <<df_base, disk, df_ee, df_mat, df_doc, df_mat_g, df_doc_g, df_master,
                   simce, df_final, conteo_comunal, comunas_eliminadas, stdout>>

\* lines 59-61: the consolidated file is missing, the script reports and returns
AnalisisGeoSinBase ==
    /\ pc = "fin"
    /\ OUTPUT_CSV \notin DOMAIN disk
    /\ stdout' = Append(stdout, [msg |-> "Error: Falta base consolidada",
                                 file |-> OUTPUT_CSV])
    /\ pc' = "mapa"
    /\ UNCHANGED <<df_base, gdf_comunas, disk, df_ee, df_mat, df_doc, df_mat_g, df_doc_g,
                   df_master, simce, df_final, conteo_comunal, comunas_eliminadas>>

(***************************************************************************)
(* main() of 04_analisis_segregacion.py up to the payment reclassification *)
(* (lines 53-63); 05_analisis_estadistico_y_narrativa.py lines 29-39 are   *)
(* the same statements                                                     *)
(***************************************************************************)
\* pd.read_csv with its defaults: a text cell that is empty or spells a
\* missing value is read as NaN, any other cell is read as it was written
read_csv(tabla) ==
    LET na_values == {<<>>, <<"N","A">>, <<"N","/","A">>, <<"n","a","n">>,
                      <<"N","a","N">>, <<"N","U","L","L">>}
        leer(c) == IF c.t = "str" /\ c.s \in na_values THEN NULL ELSE c
    IN  [tabla EXCEPT !.rows =
            [i \in DOMAIN tabla.rows |->
                [c \in DOMAIN tabla.rows[i] |-> leer(tabla.rows[i][c])]]]

\* lines 61-63: the lambda applied to PAGO_MENSUAL
tipo_pago_binario(x) ==
    IF \/ upper(strip(str(x))) = GRATUITO
       \/ Contains(upper(str(x)), MUNICIPAL)
    THEN Gratuito
    ELSE Pagado

\* lines 53-63: the consolidated file is read and TIPO_PAGO overwritten
ReclasificarPago ==
    /\ pc = "fin"
    /\ OUTPUT_CSV \in DOMAIN disk
    /\ LET leido == read_csv(disk[OUTPUT_CSV])
       IN  /\ df_base' = WithColumn(leido, "TIPO_PAGO",
                        [i \in DOMAIN leido.rows |->
                            Str(tipo_pago_binario(leido.rows[i].PAGO_MENSUAL))])
           /\ stdout' = Append(stdout, [msg |-> "Datos cargados",
                                        n |-> Len(leido.rows)])
    /\ pc' = "segregacion"
    /\ UNCHANGED <<gdf_comunas, disk, df_ee, df_mat, df_doc, df_mat_g, df_doc_g,
                   df_master, simce, df_final, conteo_comunal, comunas_eliminadas>>

\* lines 56-58: the consolidated file is missing, the script reports and returns
SegregacionSinBase ==
    /\ pc = "fin"
    /\ OUTPUT_CSV \notin DOMAIN disk
    /\ stdout' = Append(stdout, [msg |-> "Error: Ejecuta el Bloque 1 primero"])
    /\ pc' = "segregacion"
    /\ UNCHANGED <<df_base, gdf_comunas, disk, df_ee, df_mat, df_doc, df_mat_g, df_doc_g,
                   df_master, simce, df_final, conteo_comunal, comunas_eliminadas>>

Next ==
    \/ CargarRaw
    \/ CargarRawFalla
    \/ ErrorDeClave
    \/ NormalizarRBD
    \/ FiltrarParvulos
    \/ PrepararDirectorio
    \/ Agregar
    \/ MergeMaster
    \/ LimpiarNulos
    \/ CalcularRatios
    \/ Clasificar
    \/ IntegrarSimce
    \/ IntegrarSimceFalla
    \/ RecorteBBox
    \/ FiltroRepresentatividad
    \/ Guardar
    \/ NormalizarNombresMapa
    \/ AnalisisGeoSinBase
    \/ ReclasificarPago
    \/ SegregacionSinBase

(***************************************************************************)
(* The raw files a run may find on disk                                    *)
(***************************************************************************)
DigitChar == <<"1", "2", "3", "4", "5", "6", "7", "8", "9">>
IdStr(i) == Str(<<DigitChar[i]>>)

\* the smallest directory one commune of which survives the
\* representativeness filter
NBase == MIN_COLEGIOS_POR_COMUNA + 1

EnsBasica == [i \in 1..NUM_ENS |-> IF i = 1 THEN Num(110) ELSE Num(0)]

LAT_IN == Str(<<"-","3","3",",","4","5">>)
LON_IN == Str(<<"-","7","0",",","6","5">>)
LON_VALUES ==
    << Str(<<"-","7","0",".","8","7","2","1","1","7">>),
       Str(<<"-","7","0",".","8","7","2","1","1","6">>),
       LON_IN,
       Str(<<"-","7","0",",","4","6","9","7","4","2">>),
       Str(<<"-","7","0",",","4","6","9","7","4","1">>) >>
LAT_VALUES ==
    << Str(<<"-","3","3",".","6","4","2","5","2","8">>),
       Str(<<"-","3","3",".","6","4","2","5","2","7">>),
       LAT_IN,
       Str(<<"-","3","3",",","3","2","7","5","5","2">>),
       Str(<<"-","3","3",",","3","2","7","5","5","1">>) >>

NUNOA_RAW == Str(<<"N~","u","n~","o","a">>)
MAIPU_RAW == Str(<<"M","a","i","p","u"," ">>)

EERow(rbd, com, lon, lat, depe, pago) ==
    [RBD |-> rbd, NOM_RBD |-> Str(<<"E">>), COD_REG_RBD |-> Num(REGION_RM),
     COD_COM_RBD |-> Num(13120), NOM_COM_RBD |-> com, COD_DEPE |-> depe,
     LATITUD |-> lat, LONGITUD |-> lon, RURAL_RBD |-> Num(0),
     PAGO_MENSUAL |-> pago, ENS |-> EnsBasica]

EERowBase(i) == EERow(IdStr(i), NUNOA_RAW, LON_IN, LAT_IN, Num(1), Str(GRATUITO))
MatRow(rbd, mat, cur) == [RBD |-> rbd, MAT_TOTAL |-> mat, CUR_SIM_TOT |-> cur]
DocRow(rbd, dc) == [RBD |-> rbd, DC_TOT |-> dc]
S4Row(rbd, lect, mate) ==
    [rbd |-> rbd, prom_lect4b_rbd |-> lect, prom_mate4b_rbd |-> mate]
S2Row(rbd, lect, mate) ==
    [rbd |-> rbd, prom_lect2m_rbd |-> lect, prom_mate2m_rbd |-> mate]

EE_COLUMNS == cols_ee \cup {"COD_REG_RBD", "ENS"}
EETable(rows) == Table(EE_COLUMNS, rows)
MatTable(rows) == Table({"RBD", "MAT_TOTAL", "CUR_SIM_TOT"}, rows)
DocTable(rows) == Table({"RBD", "DC_TOT"}, rows)
S4Table(rows) == Table(DOMAIN cols_s4, rows)
S2Table(rows) == Table(DOMAIN cols_s2, rows)

\* sequences over S of length at most n
RECURSIVE SeqsUpTo(_, _)
SeqsUpTo(S, n) ==
    IF n = 0 THEN {<<>>}
    ELSE LET prev == SeqsUpTo(S, n - 1)
         IN  prev \cup {Append(q, x) : q \in {p \in prev : Len(p) = n - 1}, x \in S}

\* non-decreasing sequences over 1..k of length at most n
RECURSIVE SortedUpTo(_, _)
SortedUpTo(k, n) ==
    IF n = 0 THEN {<<>>}
    ELSE LET prev == SortedUpTo(k, n - 1)
         IN  prev \cup UNION {{Append(q, x) : x \in (IF q = <<>> THEN 1 ELSE q[Len(q)])..k}
                              : q \in {p \in prev : Len(p) = n - 1}}

BaseEE == EETable([i \in 1..NBase |-> EERowBase(i)])
BaseMatRows(from) ==
    [i \in 1..(NBase - from + 1) |-> MatRow(IdStr(i + from - 1), Num(500), Num(20))]
BaseDocRows(from) ==
    [i \in 1..(NBase - from + 1) |-> DocRow(IdStr(i + from - 1), Num(25))]
BaseS4 == S4Table(<<S4Row(IdStr(1), Num(250), Num(260))>>)
BaseS2 == S2Table(<<S2Row(IdStr(1), Num(240), Num(230))>>)

Disk(ee, mat, doc, s4, s2) ==
    (EE_CSV :> ee) @@ (MAT_CSV :> mat) @@ (DOC_CSV :> doc) @@
    (S4_CSV :> s4) @@ (S2_CSV :> s2)

BaseDisk == Disk(BaseEE, MatTable(BaseMatRows(1)), DocTable(BaseDocRows(1)), BaseS4, BaseS2)

Restrict(f, S) == [x \in S |-> f[x]]

\* fee labels and dependency codes of the first directory row
PagoValues ==
    {Str(GRATUITO), Str(<<"g","r","a","t","u","i","t","o">>),
     Str(<<" ","G","R","A","T","U","I","T","O">>),
     Str(SIN_INFORMACION), Str(<<"S","i","n"," ","I","n","f","o","r","m","a","c","i","o","n">>),
     Str(PRECIO_1), Str(PRECIO_2), Str(PRECIO_3), Str(PRECIO_4), Str(PRECIO_5),
     Str(<<"O","T","R","O">>), NULL}
DepeValues == {Num(c) : c \in 1..7} \cup {NULL, Str(<<"1">>)}

InputsPago ==
    {[BaseDisk EXCEPT ![EE_CSV].rows[1].COD_DEPE = depe,
                      ![EE_CSV].rows[1].PAGO_MENSUAL = pago]
        : depe \in DepeValues, pago \in PagoValues}

\* coordinates of the first directory row, around the four bounds
InputsBBox ==
    {[BaseDisk EXCEPT ![EE_CSV].rows[1].LONGITUD = LON_VALUES[i],
                      ![EE_CSV].rows[1].LATITUD = LAT_VALUES[j]]
        : i \in 1..Len(LON_VALUES), j \in 1..Len(LAT_VALUES)}

\* coordinates of the first two directory rows that are missing or are no
\* number
CoordValues ==
    {NULL, Str(<<"S", "/", "I">>), Str(<<>>), Str(<<"-","3","3",",","4","5",",","1">>)}
NAmplio == NBase + 2
DiskAmplio ==
    Disk(EETable([i \in 1..NAmplio |-> EERowBase(i)]),
         MatTable([i \in 1..NAmplio |-> MatRow(IdStr(i), Num(500), Num(20))]),
         DocTable([i \in 1..NAmplio |-> DocRow(IdStr(i), Num(25))]),
         BaseS4, BaseS2)
InputsCoord ==
    {[DiskAmplio EXCEPT ![EE_CSV].rows[1].LATITUD = a, ![EE_CSV].rows[2].LONGITUD = b]
        : a \in CoordValues \cup {LAT_IN}, b \in CoordValues \cup {LON_IN}}

\* grade-level codes ENS_01..ENS_11 of the first directory row
EnsDe(a, b, resto) ==
    [i \in 1..NUM_ENS |-> IF i = 1 THEN a ELSE IF i = 2 THEN b ELSE resto]
EnsValues ==
    {EnsDe(a, b, resto) : a \in {Num(COD_PARVULARIA), Num(0), NULL},
                          b \in {Num(COD_PARVULARIA), Num(110), Num(0), NULL},
                          resto \in {Num(0), NULL}}
InputsEns ==
    {[DiskAmplio EXCEPT ![EE_CSV].rows[1].ENS = ens] : ens \in EnsValues}

\* directory files that lack one column of the wish-list
InputsColumnas ==
    {[BaseDisk EXCEPT ![EE_CSV] =
         Table(EE_COLUMNS \ {c},
               [i \in 1..NBase |-> Restrict(BaseEE.rows[i], EE_COLUMNS \ {c})])]
        : c \in cols_ee}

\* commune names of the first directory row: every string of at most
\* MaxNameLen characters among a letter, a precomposed letter, a combining
\* mark and a space
NameChars == {"a", "n~", "~", " "}
InputsNombre ==
    {[BaseDisk EXCEPT ![EE_CSV].rows[1].NOM_COM_RBD = Str(nombre)]
        : nombre \in SeqsUpTo(NameChars, MaxNameLen)}

\* directories of up to MaxGeoRows rows over three communes, inside (on the
\* south-west corner of) the box or just north of it
GeoKinds ==
    << <<NUNOA_RAW, 2, 2>>, <<NUNOA_RAW, 3, 5>>, <<MAIPU_RAW, 2, 2>>,
       <<MAIPU_RAW, 3, 5>>, <<NULL, 2, 2>> >>
GeoRow(i, k) ==
    EERow(IdStr(i), GeoKinds[k][1], LON_VALUES[GeoKinds[k][2]],
          LAT_VALUES[GeoKinds[k][3]], Num(1), Str(GRATUITO))
InputsGeo ==
    {Disk(EETable([i \in 1..Len(q) |-> GeoRow(i, q[i])]),
          MatTable([i \in 1..Len(q) |-> MatRow(IdStr(i), Num(500), Num(20))]),
          DocTable([i \in 1..Len(q) |-> DocRow(IdStr(i), Num(25))]),
          BaseS4, BaseS2)
        : q \in SortedUpTo(Len(GeoKinds), MaxGeoRows)}

\* identifiers of the first two directory rows
ID_123_0 == Str(<<"1", "2", "3", ".", "0">>)
ID_1_0 == Str(<<"1", ".", "0">>)
ID_1_5 == Str(<<"1", ".", "5">>)
ID_NA == Str(<<"N", "/", "A">>)
IdValues == {IdStr(1), IdStr(2), ID_1_0, ID_1_5, ID_123_0, ID_NA, NULL}
InputsDir ==
    {[BaseDisk EXCEPT ![EE_CSV].rows[1].RBD = a, ![EE_CSV].rows[2].RBD = b]
        : a \in IdValues, b \in IdValues}

\* enrollment rows of facility 1, with and without the section-count column
MatPool ==
    {MatRow(IdStr(1), Num(500), Num(20)), MatRow(IdStr(1), Num(500), Num(0)),
     MatRow(IdStr(1), Num(0), Num(20)), MatRow(IdStr(1), Num(500), Num(-1)),
     MatRow(IdStr(1), NULL, NULL), MatRow(Str(<<"N", "/", "A">>), Num(500), Num(20))}
InputsMat ==
    {[BaseDisk EXCEPT ![MAT_CSV] = MatTable(q \o BaseMatRows(2))]
        : q \in SeqsUpTo(MatPool, MaxSrcRows)}
    \cup
    {[BaseDisk EXCEPT ![MAT_CSV] =
         Table({"RBD", "MAT_TOTAL"},
               [i \in 1..Len(q \o BaseMatRows(2)) |->
                   Restrict((q \o BaseMatRows(2))[i], {"RBD", "MAT_TOTAL"})])]
        : q \in SeqsUpTo({r \in MatPool : r.CUR_SIM_TOT = Num(20)}, MaxSrcRows)}

\* teacher rows of facilities 1 and 2
DocPool ==
    {DocRow(IdStr(1), dc) : dc \in {Num(25), Num(0), Num(-1), NULL}}
        \cup {DocRow(IdStr(2), Num(25))}
InputsDoc ==
    {[BaseDisk EXCEPT ![DOC_CSV] = DocTable(q \o BaseDocRows(3))]
        : q \in SeqsUpTo(DocPool, MaxSrcRows)}

\* score rows, of either level
ScoreIds == {IdStr(1), IdStr(2), Str(<<"N", "/", "A">>)}
InputsSimce ==
    {[BaseDisk EXCEPT ![S4_CSV] = S4Table(q)]
        : q \in SeqsUpTo({S4Row(rbd, Num(250), Num(260)) : rbd \in ScoreIds}
                         \cup {S4Row(IdStr(1), Num(250), NULL),
                               S4Row(IdStr(1), Str(<<"N", "/", "A">>), Num(260)),
                               S4Row(IdStr(2), NULL, Str(<<"N", "/", "A">>))},
                         MaxSrcRows)}
    \cup
    {[BaseDisk EXCEPT ![S2_CSV] = S2Table(q)]
        : q \in SeqsUpTo({S2Row(IdStr(1), Num(240), Num(230)),
                          S2Row(Str(<<"N", "/", "A">>), Num(240), Num(230)),
                          S2Row(IdStr(1), NULL, Num(230))}, MaxSrcRows)}

\* any of the five files missing, or a score file without a selected column
InputsArchivos ==
    {Restrict(BaseDisk, present) : present \in SUBSET DOMAIN BaseDisk}
    \cup
    {[BaseDisk EXCEPT ![S4_CSV] =
         Table({"rbd", "prom_lect4b_rbd"},
               <<Restrict(BaseS4.rows[1], {"rbd", "prom_lect4b_rbd"})>>)],
     [BaseDisk EXCEPT ![S2_CSV] =
         Table({"rbd", "prom_mate2m_rbd"},
               <<Restrict(BaseS2.rows[1], {"rbd", "prom_mate2m_rbd"})>>)]}

Inputs ==
    InputsPago \cup InputsBBox \cup InputsCoord \cup InputsEns \cup InputsColumnas
        \cup InputsNombre
        \cup InputsGeo \cup InputsDir
        \cup InputsMat
        \cup InputsDoc \cup InputsSimce \cup InputsArchivos

Init ==
    /\ pc = "cargar"
    /\ disk \in Inputs
    /\ df_ee = EmptyDF
    /\ df_mat = EmptyDF
    /\ df_doc = EmptyDF
    /\ df_mat_g = EmptyDF
    /\ df_doc_g = EmptyDF
    /\ df_master = EmptyDF
    /\ simce = [s4 |-> EmptyDF, s2 |-> EmptyDF]
    /\ df_final = EmptyDF
    /\ conteo_comunal = <<>>
    /\ comunas_eliminadas = {}
    /\ gdf_comunas = EmptyDF
    /\ df_base = EmptyDF
    /\ stdout = <<>>

Spec == Init /\ [][Next]_vars

(***************************************************************************)
(* Properties                                                              *)
(***************************************************************************)
Rows(df) == {df.rows[i] : i \in 1..Len(df.rows)}

Emitido == OUTPUT_CSV \in DOMAIN disk
Salida == IF Emitido THEN disk[OUTPUT_CSV] ELSE EmptyDF

\* the consolidated records that carry column col: those of the master
\* table, of the filtered table and of the emitted file
Consolidados(col) ==
    UNION {IF col \in df.columns THEN Rows(df) ELSE {} : df \in {df_master, df_final, Salida}}

PublicCategories == {MUNICIPAL_CORP, MUNICIPAL_DAEM, ADMIN_DELEGADA, SLEP}

\* C1, as stated: a record is 'Gratuito' if and only if its fee label is
\* exactly 'GRATUITO', or is 'SIN INFORMACION' with a publicly-operated
\* dependency category; every other record is 'Pagado'.
C1_ExactLabel ==
    \A r \in Consolidados("TIPO_PAGO") :
        /\ r.TIPO_PAGO \in {Str(Gratuito), Str(Pagado)}
        /\ r.TIPO_PAGO = Str(Gratuito) <=>
              \/ r.PAGO_MENSUAL = Str(GRATUITO)
              \/ /\ r.PAGO_MENSUAL = Str(SIN_INFORMACION)
                 /\ r.categoria_dependencia.s \in PublicCategories

\* C1, amended: a record is 'Gratuito' if and only if its fee label, compared
\* without regard to case (upper-cased, not trimmed), is 'GRATUITO', or is
\* 'SIN INFORMACION' with a publicly-operated dependency category; every
\* other record, a PARTICULAR_* or OTRO school without fee information
\* included, is 'Pagado'.
C1_UpperLabel ==
    \A r \in Consolidados("TIPO_PAGO") :
        /\ r.TIPO_PAGO \in {Str(Gratuito), Str(Pagado)}
        /\ r.TIPO_PAGO = Str(Gratuito) <=>
              \/ upper(str(r.PAGO_MENSUAL)) = GRATUITO
              \/ /\ upper(str(r.PAGO_MENSUAL)) = SIN_INFORMACION
                 /\ r.categoria_dependencia.s \in PublicCategories

\* the emitted file holds a public school without fee information classified
\* 'Gratuito' from a label that is not in upper case
C1_Witness ==
    \E r \in Rows(Salida) :
        /\ r.PAGO_MENSUAL # Str(SIN_INFORMACION)
        /\ upper(str(r.PAGO_MENSUAL)) = SIN_INFORMACION
        /\ r.categoria_dependencia = Str(MUNICIPAL_DAEM)
        /\ r.TIPO_PAGO = Str(Gratuito)

\* C2: the emitted file has at most one row per RBD, and no left join of
\* the pipeline leaves more rows than the directory it started from.
C2_OneRowPerRBD ==
    /\ \A i, j \in 1..Len(Salida.rows) :
          Salida.rows[i].RBD = Salida.rows[j].RBD => i = j
    /\ Len(df_master.rows) <= Len(df_ee.rows)

\* C3: the normalizer applied to the boundary dataset's names returns what
\* the consolidation pipeline's normalizer returns, and null maps to the
\* sentinel.
C3_SameNormalizer ==
    \A r \in Rows(gdf_comunas) :
        /\ r.nombre_norm = Str(normalizar_texto(r.NOM_COMUNA))
        /\ isna(r.NOM_COMUNA) => r.nombre_norm = Str(DESCONOCIDO)

InputFiles == {EE_CSV, MAT_CSV, DOC_CSV, S4_CSV, S2_CSV}
SimceColumns == {"SIMCE_4B_LECT", "SIMCE_4B_MATE", "SIMCE_4B_AVG",
                 "SIMCE_2M_LECT", "SIMCE_2M_MATE", "SIMCE_2M_AVG"}
Reported(m) == \E i \in 1..Len(stdout) : stdout[i] = m
Halted == pc \in {"fin", "mapa", "segregacion"}

C5_ValidIdsAtJoin ==
    \A df \in {df_mat_g, df_doc_g, simce.s4, simce.s2} :
        \A r \in Rows(df) : r.RBD.t = "num"

\* records of commune c among those that passed the bounding-box filter
TrasBBox(c) ==
    Cardinality({i \in 1..Len(df_master.rows) :
                    /\ df_master.rows[i].NOM_COM_RBD = c
                    /\ BBOX_MIN_LON <= Micro(df_master.rows[i].LONGITUD)
                    /\ Micro(df_master.rows[i].LONGITUD) <= BBOX_MAX_LON
                    /\ BBOX_MIN_LAT <= Micro(df_master.rows[i].LATITUD)
                    /\ Micro(df_master.rows[i].LATITUD) <= BBOX_MAX_LAT})

Filtrado == pc \in {"guardar", "fin", "mapa", "segregacion"} /\ "NOM_COM_RBD" \in df_final.columns
Comunas(df) == {r.NOM_COM_RBD : r \in Rows(df)}

\* C6: after the representativeness filter every commune with records left
\* has strictly more than MIN_COLEGIOS_POR_COMUNA records among those that
\* passed the bounding box, and a commune with exactly the minimum is removed.
C6_RetainedAboveMinimum ==
    Filtrado =>
        /\ \A c \in Comunas(df_final) \cup Comunas(Salida) :
              TrasBBox(c) > MIN_COLEGIOS_POR_COMUNA
        /\ \A c \in Comunas(df_master) :
              TrasBBox(c) = MIN_COLEGIOS_POR_COMUNA => c \notin Comunas(df_final)

\* the emitted file keeps a commune while another one, left with exactly the
\* minimum after the clip, is gone
C6_Witness ==
    /\ Emitido
    /\ Comunas(Salida) # {}
    /\ \E c \in Comunas(df_master) :
          TrasBBox(c) = MIN_COLEGIOS_POR_COMUNA /\ c \notin Comunas(Salida)

InBox(r) ==
    /\ BBOX_MIN_LON <= Micro(r.LONGITUD) /\ Micro(r.LONGITUD) <= BBOX_MAX_LON
    /\ BBOX_MIN_LAT <= Micro(r.LATITUD) /\ Micro(r.LATITUD) <= BBOX_MAX_LAT

\* C8: a record passes the bounding-box filter if and only if its longitude
\* and latitude lie within the four bounds, all inclusive, and every record
\* of the output satisfies them.
C8_InclusiveBBox ==
    /\ pc = "representatividad" =>
          \A r \in Rows(df_master) : r \in Rows(df_final) <=> InBox(r)
    /\ \A r \in Rows(df_final) \cup Rows(Salida) : InBox(r)

\* the emitted file holds a record lying exactly on a bound of the box
C8_Witness ==
    \E r \in Rows(Salida) :
        \/ Micro(r.LONGITUD) \in {BBOX_MIN_LON, BBOX_MAX_LON}
        \/ Micro(r.LATITUD) \in {BBOX_MIN_LAT, BBOX_MAX_LAT}

\* C9: the student-teacher ratio of every consolidated record is undefined
\* or strictly positive and finite, and is never computed from a teacher
\* count <= 0.
C9_RatioDocentePositive ==
    \A r \in Consolidados("ratio_alumno_docente") :
        /\ r.DC_TOT.v > 0
        /\ \/ isna(r.ratio_alumno_docente)
           \/ /\ r.ratio_alumno_docente.t = "float"
              /\ r.ratio_alumno_docente.d > 0
              /\ r.ratio_alumno_docente.n > 0

\* the ratios are computed on a run whose teacher aggregate gives a facility
\* of the directory a count <= 0
C9_Witness ==
    /\ "ratio_alumno_docente" \in df_master.columns
    /\ Len(df_master.rows) > 0
    /\ \E g \in Rows(df_doc_g) :
          g.DC_TOT.v <= 0 /\ \E e \in Rows(df_ee) : e.RBD = g.RBD

\* C10: the student-class ratio of every consolidated record equals
\* enrollment / sections when sections > 0 and is null when the section
\* count is <= 0; without a section count there is no such field.
C10_RatioCurso ==
    /\ \A r \in Consolidados("ratio_alumno_curso") :
          IF ~isna(r.CUR_SIM_TOT) /\ r.CUR_SIM_TOT.v > 0
          THEN /\ r.ratio_alumno_curso.t = "float"
               /\ r.ratio_alumno_curso.d > 0
               /\ r.ratio_alumno_curso.n * r.CUR_SIM_TOT.v
                    = r.MAT_TOTAL.v * r.ratio_alumno_curso.d
          ELSE isna(r.ratio_alumno_curso)
    /\ \A df \in {df_master, df_final, Salida} :
          "CUR_SIM_TOT" \notin df.columns => "ratio_alumno_curso" \notin df.columns

\* a facility with enrollment 500 and no section has a null ratio
C10_Witness ==
    \E r \in Consolidados("ratio_alumno_curso") :
        /\ r.MAT_TOTAL = Num(500)
        /\ r.CUR_SIM_TOT = Num(0)
        /\ isna(r.ratio_alumno_curso)

\* the master table has been through lines 107-109
Limpio == pc \in {"ratios", "clasificaciones", "simce", "bbox", "representatividad",
                  "guardar", "fin", "mapa", "segregacion"}

\* identifiers present in a table
Claves(df) == {r.RBD : r \in Rows(df)}

\* C11: every consolidated record has a latitude, a longitude, a teacher
\* count and an enrollment, none of them null; a directory record without a
\* valid coordinate, or whose facility has no row in the enrollment or in the
\* teacher aggregate, is neither in the cleaned master table nor in the output.
C11_RequiredFieldsPresent ==
    Limpio =>
        /\ \A r \in Rows(df_master) \cup Rows(df_final) \cup Rows(Salida) :
              \A c \in {"LATITUD", "LONGITUD", "DC_TOT", "MAT_TOTAL"} : ~isna(r[c])
        /\ \A e \in Rows(df_ee) :
              (isna(e.LATITUD) \/ isna(e.LONGITUD)) =>
                  \A r \in Rows(df_master) \cup Rows(Salida) :
                      [c \in df_ee.columns |-> r[c]] # e
        /\ \A e \in Rows(df_ee) :
              (e.RBD \notin Claves(df_mat_g) \/ e.RBD \notin Claves(df_doc_g)) =>
                  e.RBD \notin Claves(df_master) \cup Claves(Salida)

\* a run has written records, two directory records of which had a
\* coordinate that is no number
C11_Witness ==
    /\ Emitido
    /\ Len(Salida.rows) > 0
    /\ \E e \in Rows(df_ee) : isna(e.LATITUD)
    /\ \E e \in Rows(df_ee) : isna(e.LONGITUD)

\* C12: whatever its fee label (a missing one and one outside the known set
\* included) and whatever its dependency category, the TIPO_PAGO of every
\* consolidated record is one of 'Gratuito' and 'Pagado', never null and
\* never a third value.
C12_TipoPagoDomain ==
    \A r \in Consolidados("TIPO_PAGO") :
        /\ ~isna(r.TIPO_PAGO)
        /\ r.TIPO_PAGO.t = "str"
        /\ r.TIPO_PAGO.s \in {Gratuito, Pagado}

\* the emitted file holds a classified record whose fee label is missing and
\* whose dependency code is missing or unknown
C12_Witness ==
    \E r \in Rows(Salida) :
        /\ isna(r.PAGO_MENSUAL)
        /\ r.categoria_dependencia = Str(OTRO)
        /\ r.TIPO_PAGO = Str(Pagado)

\* the integer key an identifier of the input files stands for
ClaveEsperada(c) ==
    CASE c = ID_123_0 -> Num(123)
      [] c = ID_1_0 -> Num(1)
      [] c = ID_1_5 -> Num(1)
      [] OTHER -> Num(DigitVal[c.s[1]])

\* norm is raw without the rows whose identifier is no number, the others in
\* their order, untouched but for the identifier, now an integer
NormalizadaDe(raw, norm) ==
    LET kept == SelectSeq(raw.rows, LAMBDA r : r.RBD \notin {ID_NA, NULL})
    IN  /\ Len(norm.rows) = Len(kept)
        /\ \A i \in 1..Len(kept) :
              /\ norm.rows[i].RBD.t = "num"
              /\ norm.rows[i].RBD = ClaveEsperada(kept[i].RBD)
              /\ \A c \in raw.columns \ {"RBD"} : norm.rows[i][c] = kept[i][c]

\* C13: identifier normalization of the directory, enrollment and teacher
\* tables removes the rows whose RBD is no number ('N/A', missing), keeps
\* '123.0' with the integer key 123, leaves every other row as it was, and no
\* row without an integer key reaches an aggregate or the master table.
C13_IntegerKeyOrDropped ==
    /\ pc = "filtro_parvulos" =>
          /\ NormalizadaDe(disk[EE_CSV], df_ee)
          /\ NormalizadaDe(disk[MAT_CSV], df_mat)
          /\ NormalizadaDe(disk[DOC_CSV], df_doc)
    /\ \A df \in {df_mat_g, df_doc_g, df_master} :
          \A r \in Rows(df) : r.RBD.t = "num"

\* the directory has been normalized: its row 'N/A' is gone and its row
\* '123.0' carries the key 123
C13_Witness ==
    /\ pc = "filtro_parvulos"
    /\ \E r \in Rows(disk[EE_CSV]) : r.RBD = ID_NA
    /\ \E r \in Rows(disk[EE_CSV]) : r.RBD = ID_123_0
    /\ \E r \in Rows(df_ee) : r.RBD = Num(123)
    /\ Len(df_ee.rows) = Len(disk[EE_CSV].rows) - 1

\* the distinct grade-level codes of a row that are neither zero nor null
NivelesDe(ens) ==
    {ens[i].v : i \in {j \in 1..NUM_ENS : ens[j] # NULL /\ ens[j] # Num(0)}}

Ausentes == IF EE_CSV \in DOMAIN disk THEN cols_ee \ disk[EE_CSV].columns ELSE {}

\* C15: whichever wish-list column the directory file lacks, the column is
\* skipped and the run completes: it raises nothing and writes its output,
\* without that column.
C15_AbsentColumnSkipped ==
    Ausentes # {} =>
        /\ pc # "excepcion"
        /\ pc \in {"fin", "mapa", "segregacion"} => (Emitido /\ Salida.columns \cap Ausentes = {})

\* a run whose directory lacks a wish-list column wrote its output
C15_SomeColumnsSkipped ==
    /\ Ausentes # {}
    /\ Emitido
    /\ Len(Salida.rows) > 0
    /\ Salida.columns \cap Ausentes = {}

\* the enrollment file has no section-count column
SinCursos == MAT_CSV \in DOMAIN disk /\ "CUR_SIM_TOT" \notin disk[MAT_CSV].columns

\* C16: when the enrollment file has no CUR_SIM_TOT column the run raises
\* nothing and emits its output without the student-class ratio, every
\* other derived field being there with the value it has otherwise.
C16_NoSectionColumn ==
    SinCursos =>
        /\ pc # "excepcion"
        /\ pc \in {"fin", "mapa", "segregacion"} => Emitido
        /\ \A df \in {df_master, df_final, Salida} :
              {"ratio_alumno_curso", "CUR_SIM_TOT"} \cap df.columns = {}
        /\ \A r \in Rows(Salida) :
              /\ r.DC_TOT = Num(25)
              /\ r.ratio_alumno_docente = Float(r.MAT_TOTAL.v, 25)
              /\ r.categoria_dependencia = Str(MUNICIPAL_CORP)
              /\ r.TIPO_PAGO = Str(Gratuito)
              /\ r.orden_precio = Num(0)
              /\ r.RBD = Num(1) => r.SIMCE_4B_AVG = Float(510, 2)

\* a run without the section-count column wrote records
C16_Witness ==
    /\ SinCursos
    /\ Emitido
    /\ Len(Salida.rows) > 0

\* no run raises but for a column missing from the directory file: no value
\* of a cell makes a lookup raise
NingunValorLanza == pc = "excepcion" => Ausentes # {}

\* the fee labels that stand for 'GRATUITO' once upper-cased and trimmed
EtiquetasGratuito ==
    {Str(GRATUITO), Str(<<"g","r","a","t","u","i","t","o">>),
     Str(<<" ","G","R","A","T","U","I","T","O">>)}

\* C17: orden_precio is taken on the label upper-cased and trimmed:
\* 'GRATUITO' gets the lowest real rank, the five brackets strictly
\* increasing ranks above it in ascending price order, 'SIN INFORMACION' and
\* every unmapped or missing label a sentinel below every real rank.
C17_OrdenPrecio ==
    /\ NingunValorLanza
    /\ \A r \in Consolidados("orden_precio") :
            LET o == r.orden_precio.v
                p == r.PAGO_MENSUAL
            IN  /\ r.orden_precio.t = "num"
                /\ p \in EtiquetasGratuito => o = 0
                /\ p = Str(PRECIO_1) => o = 1
                /\ p = Str(PRECIO_2) => o = 2
                /\ p = Str(PRECIO_3) => o = 3
                /\ p = Str(PRECIO_4) => o = 4
                /\ p = Str(PRECIO_5) => o = 5
                /\ p \notin EtiquetasGratuito \cup
                        {Str(PRECIO_1), Str(PRECIO_2), Str(PRECIO_3), Str(PRECIO_4),
                         Str(PRECIO_5)} => o < 0

\* the emitted file ranks a padded 'GRATUITO' lowest
C17_Witness ==
    \E r \in Rows(Salida) :
        /\ r.PAGO_MENSUAL = Str(<<" ","G","R","A","T","U","I","T","O">>)
        /\ r.orden_precio = Num(0)

\* C18: the dependency category is the fixed label of the codes 1..6 and
\* 'OTRO' for every other code, a missing one included; the lookup never
\* raises, and the if/elif chain of 01pre.py gives the same label.
C18_DependencyCategory ==
    /\ NingunValorLanza
    /\ \A r \in Consolidados("categoria_dependencia") :
          LET cat == r.categoria_dependencia
              cod == r.COD_DEPE
          IN  /\ cod = Num(1) => cat = Str(MUNICIPAL_CORP)
              /\ cod = Num(2) => cat = Str(MUNICIPAL_DAEM)
              /\ cod = Num(3) => cat = Str(PARTICULAR_SUBV)
              /\ cod = Num(4) => cat = Str(PARTICULAR_PAGADO)
              /\ cod = Num(5) => cat = Str(ADMIN_DELEGADA)
              /\ cod = Num(6) => cat = Str(SLEP)
              /\ cod \notin {Num(c) : c \in 1..6} => cat = Str(OTRO)
              /\ cat = Str(clasificar_dependencia(cod))

\* the emitted file holds a record without dependency code, labelled 'OTRO'
C18_Witness ==
    \E r \in Rows(Salida) :
        isna(r.COD_DEPE) /\ r.categoria_dependencia = Str(OTRO)

\* the directory's commune names have been normalized (line 78)
NombresNormalizados == pc \in {"agregacion", "merge", "limpieza"} \/ Limpio

\* C19: text normalization is idempotent: normalizing again a commune name
\* the pipeline has normalized, the sentinel of a missing name included,
\* gives the same string.
C19_NormalizarIdempotent ==
    NombresNormalizados =>
        \A r \in Rows(df_ee) \cup Rows(df_master) \cup Rows(Salida) :
            normalizar_texto(r.NOM_COM_RBD) = r.NOM_COM_RBD.s

\* the directory has been normalized, a name of which carried a space
\* followed by a combining mark at its end
C19_Witness ==
    /\ pc = "agregacion"
    /\ \E e \in Rows(disk[EE_CSV]) : e.NOM_COM_RBD = Str(<<"n~", " ", "~">>)
    /\ \E r \in Rows(df_ee) : r.NOM_COM_RBD = Str(<<"N">>)

\* the aggregates have been computed (lines 94-101)
Agregado == pc \in {"merge", "limpieza"} \/ Limpio

\* the sum of column col over the rows of index in I, a missing value
\* counting for nothing
RECURSIVE SumaDe(_, _, _)
SumaDe(I, rows, col) ==
    IF I = {} THEN 0
    ELSE LET i == CHOOSE x \in I : TRUE
         IN  (IF rows[i][col] = NULL THEN 0 ELSE rows[i][col].v)
                + SumaDe(I \ {i}, rows, col)

\* agg holds exactly one row for each identifier of src, with the sum of col
\* over the rows of src that carry the identifier
AgregadoDe(src, agg, col) ==
    /\ \A i, j \in 1..Len(agg.rows) : agg.rows[i].RBD = agg.rows[j].RBD => i = j
    /\ Claves(agg) = Claves(src)
    /\ col \in src.columns =>
          \A g \in Rows(agg) :
              g[col] = Num(SumaDe({i \in 1..Len(src.rows) : src.rows[i].RBD = g.RBD},
                                  src.rows, col))

\* C20: after aggregation every identifier of the enrollment table, and of
\* the teacher table, appears on exactly one row of its aggregate, with the
\* sums over all the source rows of that identifier; a facility without
\* source row is absent from the aggregate.
C20_AggregateUniqueAndSummed ==
    Agregado =>
        /\ AgregadoDe(df_mat, df_mat_g, "MAT_TOTAL")
        /\ AgregadoDe(df_mat, df_mat_g, "CUR_SIM_TOT")
        /\ AgregadoDe(df_doc, df_doc_g, "DC_TOT")

\* the aggregates of a run whose enrollment file has two rows for facility
\* 1: the aggregate holds their sum
C20_Witness ==
    /\ pc = "merge"
    /\ \E i, j \in 1..Len(df_mat.rows) :
          i # j /\ df_mat.rows[i].RBD = Num(1) /\ df_mat.rows[j].RBD = Num(1)
    /\ \E g \in Rows(df_mat_g) : g.RBD = Num(1) /\ g.MAT_TOTAL = Num(1000)

\* C21: the TIPO_PAGO that 04_analisis_segregacion.py recomputes from
\* PAGO_MENSUAL alone is, for every record of the consolidated file, the
\* TIPO_PAGO the pipeline wrote there.
C21_RecomputedEqualsWritten ==
    (pc = "segregacion" /\ Emitido) =>
        /\ Len(df_base.rows) = Len(Salida.rows)
        /\ \A i \in DOMAIN df_base.rows :
              df_base.rows[i].TIPO_PAGO = Salida.rows[i].TIPO_PAGO

\* C22: in every consolidated record orden_precio = 0 implies TIPO_PAGO =
\* 'Gratuito' and orden_precio >= 1 implies TIPO_PAGO = 'Pagado', whatever
\* the whitespace or casing of the raw fee label.
C22_OrdinalAgreesWithTipoPago ==
    \A r \in Consolidados("orden_precio") :
        /\ r.orden_precio = Num(0) => r.TIPO_PAGO = Str(Gratuito)
        /\ (r.orden_precio.t = "num" /\ r.orden_precio.v >= 1) => r.TIPO_PAGO = Str(Pagado)

\* the order in which main() of 01_procesamiento.py passes its sections, with
\* its two ways out (the early return of the load, an uncaught exception),
\* and the downstream scripts started after it
OrdenEtapas ==
    { <<"cargar", "normalizar_rbd">>, <<"normalizar_rbd", "filtro_parvulos">>,
      <<"filtro_parvulos", "directorio_rm">>, <<"directorio_rm", "agregacion">>,
      <<"agregacion", "merge">>, <<"merge", "limpieza">>, <<"limpieza", "ratios">>,
      <<"ratios", "clasificaciones">>, <<"clasificaciones", "simce">>,
      <<"simce", "bbox">>, <<"bbox", "representatividad">>,
      <<"representatividad", "guardar">>, <<"guardar", "fin">>,
      <<"cargar", "fin">>, <<"fin", "mapa">>, <<"fin", "segregacion">> }
    \cup {<<e, "excepcion">> : e \in DOMAIN ColumnasIndexadas}

\* a step that reads the score files or joins their columns to the master table
IntegraPuntajes ==
    \/ simce' # simce
    \/ SimceColumns \cap df_master'.columns # SimceColumns \cap df_master.columns

Contado(n) == \E i \in 1..Len(stdout) : "n" \in DOMAIN stdout[i] /\ stdout[i].n = n

\* C24: once a filtering stage is done (invalid-identifier drop, pre-primary
\* filter, region filter, null/zero drop, bounding box, representativeness)
\* the run has printed the number of records that stage left.
C24_CountAtEveryFilter ==
    /\ pc = "filtro_parvulos" => Contado(Len(df_ee.rows))
    /\ pc = "directorio_rm" => Contado(Len(df_ee.rows))
    /\ pc = "agregacion" => Contado(Len(df_ee.rows))
    /\ pc = "ratios" => Contado(Len(df_master.rows))
    /\ pc = "guardar" =>
          /\ Contado(Cardinality({i \in DOMAIN df_master.rows : InBox(df_master.rows[i])}))
          /\ Contado(Len(df_final.rows))

\* avg is the arithmetic mean of the two numbers a and b
EsMedia(avg, a, b) ==
    /\ ~isna(avg)
    /\ Numer(avg) * 2 * Denom(a) * Denom(b)
          = (Numer(a) * Denom(b) + Numer(b) * Denom(a)) * Denom(avg)

\* C25: the composite of every score record is the mean of its reading and
\* its math component; a record that lacks one of them has no such mean.
C25_CompositeIsMeanOfBoth ==
    /\ \A r \in Rows(simce.s4) :
          IF isna(r.SIMCE_4B_LECT) \/ isna(r.SIMCE_4B_MATE)
          THEN isna(r.SIMCE_4B_AVG)
          ELSE EsMedia(r.SIMCE_4B_AVG, r.SIMCE_4B_LECT, r.SIMCE_4B_MATE)
    /\ \A r \in Rows(simce.s2) :
          IF isna(r.SIMCE_2M_LECT) \/ isna(r.SIMCE_2M_MATE)
          THEN isna(r.SIMCE_2M_AVG)
          ELSE EsMedia(r.SIMCE_2M_AVG, r.SIMCE_2M_LECT, r.SIMCE_2M_MATE)

\* the rows of a prepared score table that carry the identifier of record l
Puntajes(tabla, l) == {s \in Rows(tabla) : s.RBD = l.RBD}

\* C26: the step that joins the two score tables removes no row and invents
\* none: every record of the master table is still there with its non-score
\* fields unchanged, and a record without a match in a score table carries
\* null in the three score fields of that level.
C26_LeftJoinKeepsRows ==
    [][(pc = "simce" /\ SimceColumns \subseteq df_master'.columns) =>
          LET antes == df_master.columns
          IN  /\ Len(df_master'.rows) >= Len(df_master.rows)
              /\ \A l \in Rows(df_master) :
                    \E r \in Rows(df_master') : [c \in antes |-> r[c]] = l
              /\ \A r \in Rows(df_master') :
                    /\ [c \in antes |-> r[c]] \in Rows(df_master)
                    /\ Puntajes(simce'.s4, r) = {} =>
                          /\ isna(r.SIMCE_4B_LECT)
                          /\ isna(r.SIMCE_4B_MATE)
                          /\ isna(r.SIMCE_4B_AVG)
                    /\ Puntajes(simce'.s2, r) = {} =>
                          /\ isna(r.SIMCE_2M_LECT)
                          /\ isna(r.SIMCE_2M_MATE)
                          /\ isna(r.SIMCE_2M_AVG)]_vars

\* after the joins one record carries its 4B scores and another, without a
\* row in the 4B table, carries null
C26_Witness ==
    /\ pc = "bbox"
    /\ SimceColumns \subseteq df_master.columns
    /\ \E r \in Rows(df_master) : Puntajes(simce.s4, r) # {} /\ ~isna(r.SIMCE_4B_AVG)
    /\ \E r \in Rows(df_master) :
          /\ Puntajes(simce.s4, r) = {}
          /\ isna(r.SIMCE_4B_AVG)
          /\ ~isna(r.MAT_TOTAL)

\* a coordinate as it would be written with a decimal point
EnPunto(c) ==
    IF c.t = "str"
    THEN Str([i \in DOMAIN c.s |-> IF c.s[i] = "," THEN "." ELSE c.s[i]])
    ELSE c

\* the directory has been through the coordinate cleaning
Preparado == pc \in {"agregacion", "merge", "limpieza"} \/ Limpio

\* a prepared directory record that the cleaning of lines 107-109 keeps
Valido(e) ==
    /\ ~isna(e.LATITUD)
    /\ ~isna(e.LONGITUD)
    /\ \E m \in Rows(df_mat_g) : m.RBD = e.RBD /\ GtInt(m.MAT_TOTAL, 0)
    /\ \E d \in Rows(df_doc_g) : d.RBD = e.RBD /\ GtInt(d.DC_TOT, 0)

\* C27: a coordinate written with a decimal comma is parsed as the number
\* its decimal-point spelling denotes; a record whose latitude or longitude
\* is no number is dropped, nothing is raised, and the other records stay as
\* they are: the cleaned master table holds exactly the valid directory
\* records, and the output every one of them that passes the two geographic
\* filters.
C27_DecimalCommaAndLocalDrop ==
    /\ Preparado =>
          \A e \in Rows(df_ee) :
              \E raw \in Rows(disk[EE_CSV]) :
                  /\ raw.RBD \notin {ID_NA, NULL}
                  /\ e.RBD = ClaveEsperada(raw.RBD)
                  /\ e.LATITUD = to_numeric(EnPunto(raw.LATITUD))
                  /\ e.LONGITUD = to_numeric(EnPunto(raw.LONGITUD))
                  /\ raw.LATITUD = LAT_IN => e.LATITUD = Float(-3345, 100)
                  /\ raw.LONGITUD = LON_IN => e.LONGITUD = Float(-7065, 100)
    /\ NingunValorLanza
    /\ Limpio =>
          {[c \in df_ee.columns |-> r[c]] : r \in Rows(df_master)}
              = {e \in Rows(df_ee) : Valido(e)}
    /\ Emitido =>
          \A r \in Rows(df_master) :
              (InBox(r) /\ TrasBBox(r.NOM_COM_RBD) > MIN_COLEGIOS_POR_COMUNA)
                  => r \in Rows(Salida)

\* a run wrote its file from a directory with a latitude that is no number:
\* that record is absent and every record with comma coordinates is there,
\* with the numbers they denote
C27_Witness ==
    /\ pc = "fin"
    /\ Emitido
    /\ \E raw \in Rows(disk[EE_CSV]) :
          /\ raw.LATITUD = Str(<<"-","3","3",",","4","5",",","1">>)
          /\ ClaveEsperada(raw.RBD) \notin Claves(Salida)
    /\ \E raw \in Rows(disk[EE_CSV]) : raw.LATITUD = LAT_IN /\ raw.LONGITUD = LON_IN
    /\ \A raw \in Rows(disk[EE_CSV]) :
          (raw.LATITUD = LAT_IN /\ raw.LONGITUD = LON_IN) =>
              \E r \in Rows(Salida) :
                  /\ r.RBD = ClaveEsperada(raw.RBD)
                  /\ r.LATITUD = Float(-3345, 100)
                  /\ r.LONGITUD = Float(-7065, 100)

\* C28: the master table, the filtered table and the emitted file carry all
\* six score columns or none of them; when reading or selecting from either
\* score file fails, none is joined and the run warns.
C28_ScoresAllOrNothing ==
    /\ \A tabla \in {df_master, df_final, Salida} :
          SimceColumns \cap tabla.columns \in {{}, SimceColumns}
    /\ ((pc \in {"bbox", "representatividad", "guardar"} \/ Emitido)
            /\ ~SimceSinExcepcion) =>
          /\ SimceColumns \cap df_master.columns = {}
          /\ Reported([msg |-> "Advertencia SIMCE"])
    /\ (Emitido /\ SimceSinExcepcion) => SimceColumns \subseteq Salida.columns

\* a run whose 4B file is complete and whose 2M file lacks a selected column
\* has written records, without any score column
C28_Witness ==
    /\ Emitido
    /\ Len(Salida.rows) > 0
    /\ S4_CSV \in DOMAIN disk
    /\ DOMAIN cols_s4 \subseteq disk[S4_CSV].columns
    /\ S2_CSV \in DOMAIN disk
    /\ ~(DOMAIN cols_s2 \subseteq disk[S2_CSV].columns)
    /\ SimceColumns \cap Salida.columns = {}

\* the dependency categories the pipeline can write
Categorias ==
    {MUNICIPAL_CORP, MUNICIPAL_DAEM, PARTICULAR_SUBV, PARTICULAR_PAGADO,
     ADMIN_DELEGADA, SLEP, OTRO}

\* C29: on every consolidated record, whatever its fee label and whichever
\* of the seven dependency categories it has, clasificar_pago of 06-simce.py
\* returns the label clasificar_pago_consolidado returns, the one the
\* pipeline wrote.
C29_SameAsConsolidado ==
    \A r \in Consolidados("TIPO_PAGO") :
        /\ r.categoria_dependencia.s \in Categorias
        /\ clasificar_pago(r) = clasificar_pago_consolidado(r)
        /\ r.TIPO_PAGO = Str(clasificar_pago(r))

\* the emitted file holds a delegated-administration record without fee
\* information, free for both classifiers
C29_Witness ==
    \E r \in Rows(Salida) :
        /\ r.PAGO_MENSUAL = Str(SIN_INFORMACION)
        /\ r.categoria_dependencia = Str(ADMIN_DELEGADA)
        /\ clasificar_pago(r) = Gratuito
        /\ r.TIPO_PAGO = Str(Gratuito)

\* the communes that still have a record after the bounding-box clip
Presentes == {c \in Comunas(df_master) : TrasBBox(c) >= 1}

\* C30: after the representativeness filter the communes present after the
\* clip are split in two: the retained ones and the reported discard list,
\* no commune in both; every clipped record of a retained commune is kept
\* and every record of a discarded one is gone; a commune the clip left
\* without record is in neither.
C30_CommunePartition ==
    Filtrado =>
        /\ Comunas(df_final) \cup comunas_eliminadas = Presentes
        /\ Comunas(df_final) \cap comunas_eliminadas = {}
        /\ Reported([msg |-> "Comunas eliminadas", comunas |-> comunas_eliminadas])
        /\ \A r \in Rows(df_master) :
              InBox(r) =>
                  /\ r.NOM_COM_RBD \in Comunas(df_final) => r \in Rows(df_final)
                  /\ r.NOM_COM_RBD \in comunas_eliminadas => r \notin Rows(df_final)
        /\ \A c \in Comunas(df_master) :
              TrasBBox(c) = 0 => (c \notin Comunas(df_final) /\ c \notin comunas_eliminadas)

\* the filter retained a commune, discarded another, and a third one had
\* lost all its records to the clip
C30_Witness ==
    /\ Filtrado
    /\ Comunas(df_final) # {}
    /\ comunas_eliminadas # {}
    /\ \E c \in Comunas(df_master) : TrasBBox(c) = 0
====
